---- MODULE Spec2Model ----
(***************************************************************************)
(* The swap-request lifecycle of the Skill Swap Platform backend: the      *)
(* swap_requests and feedback tables, and the request handlers that read   *)
(* and write them.  Every handler is a sequence of awaited database        *)
(* statements; each statement is one atomic step (autoCommit), and the     *)
(* statements of concurrent requests interleave freely.  protect and the   *)
(* first query of a handler that works on an existing swap are one step;   *)
(* createSwapRequest, whose checks read the user and skill directories,    *)
(* runs protect as a step of its own.                                      *)
(*                                                                         *)
(* Spec is the lifecycle of a swap over a fixed directory.  SpecCreate is  *)
(* createSwapRequest against a directory that changes under it: users are  *)
(* banned, skills are added to and removed from offered sets, and skills   *)
(* are moderated.                                                          *)
(*                                                                         *)
(* SpecRoutes is the lifecycle restricted to the routes swap.routes.js     *)
(* mounts.  SpecSkills is POST /api/skills/offered statement by statement. *)
(* SpecFrame starts the transitions from a ledger that already holds a     *)
(* second swap and feedback.  SpecBan serves one request after the other   *)
(* while an administrator bans users.  SpecReset is forgotPassword and     *)
(* resetPassword of the auth routes, with a clock.                         *)
(***************************************************************************)
EXTENDS Integers, FiniteSets, Sequences, TLC

(* ------------------------------ bounds -------------------------------- *)

\* Number of swap requests ever created (UUIDs handed out for swap rows),
\* counting the createSwapRequest calls under way.
MaxSwaps == 1

\* Number of users an administrator bans.
MaxBanned == 1

\* Number of reset tokens ever generated, counting the forgotPassword calls
\* under way.
MaxTokens == 2

\* Number of times the clock is seen to advance.
MaxTicks == 2

\* Concurrent request-handling tasks.
Procs == {"t1", "t2"}

\* Rows of the users table; nobody is ever deleted from it.
Users == {"alice", "bob", "carol"}

\* Rows of the skills table.
Skills == {"guitar", "spanish"}

\* Ratings a client may send with POST /api/swaps/:id/feedback.
RatingInputs == {0, 1, 5, 6}

\* Identifiers a client may put in the :id path parameter.
SwapIdInputs == 1..MaxSwaps

\* Names a client may send with POST /api/skills/offered: one name in two
\* spellings that differ in case, and once with a leading blank.
SkillNameInputs == {"spanish", "Spanish", " spanish"}

\* Addresses a client may send with POST /api/auth/forgotpassword; the
\* address of a user is written as the user's id.
EmailInputs == {"alice", "bob", "nobody"}

\* Tokens a client may put in PUT /api/auth/resetpassword/:resettoken: every
\* token that can be handed out, and 0 for one that never was.
TokenInputs == 0..MaxTokens

\* New passwords a client may send, each long enough for the route's check.
PasswordInputs == {"pw1", "pw2"}

\* Minutes the clock advances between two readings.
TickMinutes == 5

(* ------------------------- program constants -------------------------- *)

\* user.model.js: new Date(Date.now() + 10 * 60 * 1000)
ResetExpireMinutes == 10

\* swap.routes.js: check('rating').isInt({ min: 1, max: 5 }) and
\* database.sql: CHECK (rating BETWEEN 1 AND 5)
MinRating == 1
MaxRating == 5

\* Error messages thrown by the model functions and sent by the controllers.
ErrSwapNotFound == "Swap request not found"
ErrNotAuthorized == "Not authorized to update this swap request"
ErrOnlyReceiver == "Only the receiver can accept or reject a swap request"
ErrOnlyParticipantsComplete == "Only participants can mark a swap as completed"
ErrOnlySender == "Only the sender can delete a swap request"
ErrOnlyPending == "Only pending swap requests can be deleted"
ErrOnlyParticipantsFeedback == "Only participants can add feedback"
ErrNotCompleted == "Feedback can only be added to completed swaps"
ErrAlreadyLeft == "You have already left feedback for this swap"
ErrRetrievingFeedback == "Error retrieving created feedback"
ErrSelfSwap == "You cannot create a swap request with yourself"
ErrReceiverNotFound == "Receiver not found"
ErrOfferedNotYours == "Offered skill does not belong to you"
ErrWantedNotReceivers == "Wanted skill does not belong to receiver"
ErrValidation == "validation errors"
ErrBanned == "Your account has been banned. Please contact support."
ErrEmailNotFound == "User with this email not found"
ErrInvalidToken == "Invalid or expired token"
\* Oracle errors raised by the constraints of database.sql.
ErrUniqueConstraint == "ORA-00001: unique constraint (UK_FEEDBACK_USER_SWAP) violated"
ErrCheckConstraint == "ORA-02290: check constraint violated"
ErrParentKeyNotFound == "ORA-02291: integrity constraint (FK_FEEDBACK_SWAP) violated"

VARIABLES
  swap_requests,        \* table swap_requests: a set of rows
  feedback,             \* table feedback: a set of rows
  users,                \* table users: user id -> [is_banned, password,
                        \*   reset_password_token, reset_password_expire]
  user_skills_offered,  \* table user_skills_offered: set of <<user, skill>>
  user_skills_wanted,   \* table user_skills_wanted: set of <<user, skill>>
  skills,               \* table skills: id of each stored skill -> status
  uuid_swaps,           \* swap ids generated so far (crypto.randomUUID)
  uuid_feedback,        \* feedback ids of the rows inserted so far
  random_bytes,         \* reset tokens generated so far (crypto.randomBytes)
  now,                  \* the clock (Date.now(), CURRENT_TIMESTAMP), in minutes
  pc,                   \* per task: the statement it is about to run
  call,                 \* per task: the request it is serving
  seen,                 \* per task: the swap rows its first query returned
  id_out,               \* per task: RETURNING id INTO :id_out of its INSERT
  response              \* what the last step sent to its client, if anything

tables == <<swap_requests, feedback>>
directories == <<users, user_skills_offered, user_skills_wanted, skills>>
uuids == <<uuid_swaps, uuid_feedback>>
clock == <<random_bytes, now>>
locals == <<pc, call, seen, id_out>>
vars == <<swap_requests, feedback, users, user_skills_offered, user_skills_wanted,
          skills, uuid_swaps, uuid_feedback, random_bytes, now, pc, call, seen,
          id_out, response>>

NoCall == [op |-> "none", id |-> 0, userId |-> "", rating |-> 0,
           receiverId |-> "", offeredSkillId |-> "", wantedSkillId |-> "",
           skillName |-> "", email |-> "", resettoken |-> 0, password |-> ""]

\* A column that holds no value.
NULL == <<>>

\* crypto.createHash('sha256').update(resetToken).digest('hex')
sha256(resetToken) == <<"sha256", resetToken>>

\* bcrypt.hash(password, salt)
bcrypt(password) == <<"bcrypt", password>>

\* A row of users as registration leaves it.
NewUser == [is_banned |-> FALSE, password |-> bcrypt("pw0"),
            reset_password_token |-> NULL, reset_password_expire |-> NULL]

NoResponse == [call |-> NoCall, seen |-> {}, code |-> 0, error |-> "", returned |-> {}]

\* No swap and no feedback yet, nobody banned, no request being served.
InitLedger ==
  /\ swap_requests = {}
  /\ feedback = {}
  /\ users = [u \in Users |-> NewUser]
  /\ random_bytes = 0
  /\ now = 0
  /\ uuid_swaps = 0
  /\ uuid_feedback = 0
  /\ pc = [p \in Procs |-> "idle"]
  /\ call = [p \in Procs |-> NoCall]
  /\ seen = [p \in Procs |-> {}]
  /\ id_out = [p \in Procs |-> 0]
  /\ response = NoResponse

\* A directory in which two users each offer an approved skill.
Init ==
  /\ InitLedger
  /\ user_skills_offered = {<<"alice", "guitar">>, <<"bob", "spanish">>}
  /\ user_skills_wanted = {<<"bob", "guitar">>}
  /\ skills = [s \in Skills |-> "approved"]

\* A ledger with a pending swap, an earlier swap the other way round that is
\* completed, and the feedback its sender left on it.
InitFrame ==
  /\ swap_requests =
       {[id |-> 1, sender_id |-> "alice", receiver_id |-> "bob",
         offered_skill_id |-> "guitar", wanted_skill_id |-> "spanish",
         status |-> "pending"],
        [id |-> 2, sender_id |-> "bob", receiver_id |-> "alice",
         offered_skill_id |-> "spanish", wanted_skill_id |-> "guitar",
         status |-> "completed"]}
  /\ feedback = {[id |-> 1, swap_id |-> 2, user_id |-> "bob", rating |-> 5]}
  /\ users = [u \in Users |-> NewUser]
  /\ random_bytes = 0
  /\ now = 0
  /\ uuid_swaps = 2
  /\ uuid_feedback = 1
  /\ pc = [p \in Procs |-> "idle"]
  /\ call = [p \in Procs |-> NoCall]
  /\ seen = [p \in Procs |-> {}]
  /\ id_out = [p \in Procs |-> 0]
  /\ response = NoResponse
  /\ user_skills_offered = {<<"alice", "guitar">>, <<"bob", "spanish">>}
  /\ user_skills_wanted = {<<"bob", "guitar">>}
  /\ skills = [s \in Skills |-> "approved"]

\* A directory in which the second skill has not been named by anyone yet.
InitCreate ==
  /\ InitLedger
  /\ user_skills_offered = {<<"alice", "guitar">>}
  /\ user_skills_wanted = {<<"bob", "guitar">>}
  /\ skills = [s \in {"guitar"} |-> "approved"]

(* ------------------------------ queries ------------------------------- *)

\* SELECT ... FROM swap_requests sr JOIN users ... JOIN skills ... WHERE sr.id = :id
\* (result.rows: empty when there is no such row).  Users and skills are never
\* deleted, so the inner joins drop nothing.
getSwapRequestById(id) == {sr \in swap_requests : sr.id = id}

\* SELECT id FROM feedback WHERE swap_id = :swapId AND user_id = :userId
feedbackOf(swapId, userId) ==
  {f \in feedback : f.swap_id = swapId /\ f.user_id = userId}

\* SELECT s.id ... FROM user_skills_offered uso JOIN skills s WHERE uso.user_id = :userId
getUserOfferedSkills(userId) ==
  {s \in DOMAIN skills : <<userId, s>> \in user_skills_offered}

\* LOWER(...) of Oracle on the names of the model.
LOWER(name) == IF name = "Spanish" THEN "spanish" ELSE name

\* String.prototype.trim on the names of the model.
trim(name) == IF name = " spanish" THEN "spanish" ELSE name

\* SELECT ... FROM skills WHERE LOWER(name) = LOWER(:name); a skill is
\* identified by its stored name, which the table keeps UNIQUE.
getSkillByName(name) == {s \in DOMAIN skills : LOWER(s) = LOWER(name)}

\* SELECT ... FROM users u ... WHERE u.id = :id AND u.is_banned = 0
getUserById(id) == {u \in Users : u = id /\ ~users[u].is_banned}

\* protect without the is_banned check.
protectUnchecked(userId) == ""

\* protect: the user of the token is looked up and a banned user is refused.
protect(userId) == IF users[userId].is_banned THEN ErrBanned ELSE ""

\* statusOf passing the name of the wrapper instead of a status.
statusOfWrapper(op) == op

\* statusOf with rejectSwapRequest putting the swap back to pending.
statusOfReopening(op) ==
  CASE op = "accept" -> "accepted"
    [] op = "reject" -> "pending"
    [] op = "complete" -> "completed"

\* The status each wrapper passes to updateSwapRequestStatus.
statusOf(op) ==
  CASE op = "accept" -> "accepted"
    [] op = "reject" -> "rejected"
    [] op = "complete" -> "completed"

\* validRating with the route's check of the rating left out.
validRatingUnchecked(rating) == TRUE

\* validationResult(req) of POST /:id/feedback: isInt({ min: 1, max: 5 }).
validRating(rating) == rating >= MinRating /\ rating <= MaxRating

(* ------------------------------ requests ------------------------------ *)

TransitionRequests ==
  [op : {"accept", "reject", "complete"}, id : SwapIdInputs,
   userId : Users, rating : {0}, receiverId : {""},
   offeredSkillId : {""}, wantedSkillId : {""}, skillName : {""},
   email : {""}, resettoken : {0}, password : {""}]

\* The routes of swap.routes.js with a route for completeSwapRequest added.
RoutesWithComplete == TransitionRequests

\* The transitions swap.routes.js mounts: PUT /:id/accept and PUT /:id/reject.
RoutedTransitionRequests == {c \in TransitionRequests : c.op \in {"accept", "reject"}}

DeleteRequests ==
  [op : {"delete"}, id : SwapIdInputs,
   userId : Users, rating : {0}, receiverId : {""},
   offeredSkillId : {""}, wantedSkillId : {""}, skillName : {""},
   email : {""}, resettoken : {0}, password : {""}]

FeedbackRequests ==
  [op : {"addFeedback"}, id : SwapIdInputs, userId : Users,
   rating : RatingInputs, receiverId : {""},
   offeredSkillId : {""}, wantedSkillId : {""}, skillName : {""},
   email : {""}, resettoken : {0}, password : {""}]

CreateRequests ==
  [op : {"create"}, id : {0}, userId : Users, rating : {0},
   receiverId : Users, offeredSkillId : Skills, wantedSkillId : Skills,
   skillName : {""},
   email : {""}, resettoken : {0}, password : {""}]

\* POST /api/skills/offered with a skill name as a client types it.
AddOfferedSkillRequests ==
  [op : {"addOfferedSkill"}, id : {0}, userId : Users, rating : {0},
   receiverId : {""}, offeredSkillId : {""}, wantedSkillId : {""},
   skillName : SkillNameInputs,
   email : {""}, resettoken : {0}, password : {""}]

\* res.status(code).json(...): task p answers request c and is free again.
Respond(p, c, rows, code, error, returned) ==
  /\ pc' = [pc EXCEPT ![p] = "idle"]
  /\ call' = [call EXCEPT ![p] = NoCall]
  /\ seen' = [seen EXCEPT ![p] = {}]
  /\ id_out' = [id_out EXCEPT ![p] = 0]
  /\ response' = [call |-> c, seen |-> rows, code |-> code, error |-> error,
                  returned |-> returned]

\* Task p goes on to its next statement; nothing is sent.
Goto(p, c, rows, label) ==
  /\ pc' = [pc EXCEPT ![p] = label]
  /\ call' = [call EXCEPT ![p] = c]
  /\ seen' = [seen EXCEPT ![p] = rows]
  /\ response' = NoResponse

(* ----------------------- updateSwapRequestStatus ---------------------- *)

\* updateChecks without "Only receiver can accept/reject".
updateChecksAnyParticipant(rows, status, userId) ==
  IF rows = {} THEN ErrSwapNotFound
  ELSE LET swap == CHOOSE sr \in rows : TRUE IN
    IF swap.sender_id # userId /\ swap.receiver_id # userId THEN ErrNotAuthorized
    ELSE ""

\* updateChecks with completion reserved to the receiver, as accept and reject are.
updateChecksReceiverCompletes(rows, status, userId) ==
  IF rows = {} THEN ErrSwapNotFound
  ELSE LET swap == CHOOSE sr \in rows : TRUE IN
    IF swap.sender_id # userId /\ swap.receiver_id # userId THEN ErrNotAuthorized
    ELSE IF swap.receiver_id # userId THEN ErrOnlyReceiver
    ELSE ""

\* The checks between the read of the swap and the UPDATE; "" when all pass.
updateChecks(rows, status, userId) ==
  IF rows = {} THEN ErrSwapNotFound
  ELSE LET swap == CHOOSE sr \in rows : TRUE IN
    IF swap.sender_id # userId /\ swap.receiver_id # userId THEN ErrNotAuthorized
    ELSE IF status \in {"accepted", "rejected"} /\ swap.receiver_id # userId
      THEN ErrOnlyReceiver
    ELSE IF status = "completed" /\ swap.sender_id # userId /\ swap.receiver_id # userId
      THEN ErrOnlyParticipantsComplete
    ELSE ""

\* updateStatus with the UPDATE matching no row.
updateStatusLost(id, status) == swap_requests

\* updateStatus with the UPDATE missing its WHERE id = :id.
updateStatusEveryRow(id, status) ==
  {[sr EXCEPT !.status = status] : sr \in swap_requests}

\* UPDATE swap_requests SET status = :status WHERE id = :id
updateStatus(id, status) ==
  {IF sr.id = id THEN [sr EXCEPT !.status = status] ELSE sr : sr \in swap_requests}

\* protect, const swap = await this.getSwapRequestById(id), the checks, for a
\* request of the given set.
UpdReadOf(p, requests) ==
  /\ pc[p] = "idle"
  /\ \E c \in requests :
       LET rows == getSwapRequestById(c.id)
           err == updateChecks(rows, statusOf(c.op), c.userId)
       IN IF protect(c.userId) # "" THEN Respond(p, c, {}, 403, protect(c.userId), {})
          ELSE IF err # "" THEN Respond(p, c, rows, 400, err, {})
          ELSE Goto(p, c, rows, "upd_write") /\ UNCHANGED id_out
  /\ UNCHANGED <<tables, directories, uuids, clock>>

\* acceptSwapRequest, rejectSwapRequest and completeSwapRequest as the
\* controller exports them.
UpdRead(p) == UpdReadOf(p, TransitionRequests)

\* PUT /:id/accept and PUT /:id/reject, the transitions the router mounts.
RoutedUpdRead(p) == UpdReadOf(p, RoutedTransitionRequests)

\* await execute(UPDATE ...)
UpdWrite(p) ==
  /\ pc[p] = "upd_write"
  /\ swap_requests' = updateStatus(call[p].id, statusOf(call[p].op))
  /\ Goto(p, call[p], seen[p], "upd_return")
  /\ UNCHANGED <<feedback, directories, uuids, id_out, clock>>

\* return this.getSwapRequestById(id); the controller answers 200 with it.
UpdReturn(p) ==
  /\ pc[p] = "upd_return"
  /\ Respond(p, call[p], seen[p], 200, "", getSwapRequestById(call[p].id))
  /\ UNCHANGED <<tables, directories, uuids, clock>>

(* --------------------------- deleteSwapRequest ------------------------ *)

\* deleteChecks without "Check if swap is in pending status".
deleteChecksAnyStatus(rows, userId) ==
  IF rows = {} THEN ErrSwapNotFound
  ELSE LET swap == CHOOSE sr \in rows : TRUE IN
    IF swap.sender_id # userId THEN ErrOnlySender
    ELSE ""

\* The checks between the read of the swap and the DELETE; "" when all pass.
deleteChecks(rows, userId) ==
  IF rows = {} THEN ErrSwapNotFound
  ELSE LET swap == CHOOSE sr \in rows : TRUE IN
    IF swap.sender_id # userId THEN ErrOnlySender
    ELSE IF swap.status # "pending" THEN ErrOnlyPending
    ELSE ""

\* DELETE /:id: protect, const swap = await this.getSwapRequestById(id), the checks.
DelRead(p) ==
  /\ pc[p] = "idle"
  /\ \E c \in DeleteRequests :
       LET rows == getSwapRequestById(c.id)
           err == deleteChecks(rows, c.userId)
       IN IF protect(c.userId) # "" THEN Respond(p, c, {}, 403, protect(c.userId), {})
          ELSE IF err # "" THEN Respond(p, c, rows, 400, err, {})
          ELSE Goto(p, c, rows, "del_write") /\ UNCHANGED id_out
  /\ UNCHANGED <<tables, directories, uuids, clock>>

\* DELETE FROM swap_requests WHERE id = :id
deleteRows(id) == {sr \in swap_requests : sr.id = id}

\* The DELETE, with fk_feedback_swap ... ON DELETE CASCADE.  The model function
\* returns rowsAffected > 0; the controller answers 200 whatever it is.
DelWrite(p) ==
  /\ pc[p] = "del_write"
  /\ LET gone == deleteRows(call[p].id) IN
       /\ swap_requests' = swap_requests \ gone
       /\ feedback' = {f \in feedback : \A sr \in gone : f.swap_id # sr.id}
       /\ Respond(p, call[p], seen[p], 200, "", gone)
  /\ UNCHANGED <<directories, uuids, clock>>

(* ------------------------------ addFeedback --------------------------- *)

\* feedbackChecks without "Check if swap is completed".
feedbackChecksAnyStatus(rows, userId) ==
  IF rows = {} THEN ErrSwapNotFound
  ELSE LET swap == CHOOSE sr \in rows : TRUE IN
    IF swap.sender_id # userId /\ swap.receiver_id # userId
      THEN ErrOnlyParticipantsFeedback
    ELSE ""

\* feedbackChecks without "Check if user is part of the swap".
feedbackChecksAnyUser(rows, userId) ==
  IF rows = {} THEN ErrSwapNotFound
  ELSE LET swap == CHOOSE sr \in rows : TRUE IN
    IF swap.status # "completed" THEN ErrNotCompleted
    ELSE ""

\* The checks between the read of the swap and the existence check.
feedbackChecks(rows, userId) ==
  IF rows = {} THEN ErrSwapNotFound
  ELSE LET swap == CHOOSE sr \in rows : TRUE IN
    IF swap.sender_id # userId /\ swap.receiver_id # userId
      THEN ErrOnlyParticipantsFeedback
    ELSE IF swap.status # "completed" THEN ErrNotCompleted
    ELSE ""

\* POST /:id/feedback: protect, validationResult, then
\* const swap = await this.getSwapRequestById(swapId) and the checks on it.
FbRead(p) ==
  /\ pc[p] = "idle"
  /\ \E c \in FeedbackRequests :
       LET rows == getSwapRequestById(c.id)
           err == feedbackChecks(rows, c.userId)
       IN IF protect(c.userId) # "" THEN Respond(p, c, {}, 403, protect(c.userId), {})
          ELSE IF ~validRating(c.rating) THEN Respond(p, c, {}, 400, ErrValidation, {})
          ELSE IF err # "" THEN Respond(p, c, rows, 400, err, {})
          ELSE Goto(p, c, rows, "fb_check") /\ UNCHANGED id_out
  /\ UNCHANGED <<tables, directories, uuids, clock>>

\* alreadyLeft with the existence check left out.
alreadyLeftUnchecked(swapId, userId) == FALSE

\* if (checkResult.rows.length > 0) throw ...
alreadyLeft(swapId, userId) == feedbackOf(swapId, userId) # {}

\* const checkResult = await execute(checkQuery, { swapId, userId })
FbCheck(p) ==
  /\ pc[p] = "fb_check"
  /\ IF alreadyLeft(call[p].id, call[p].userId)
       THEN Respond(p, call[p], seen[p], 400, ErrAlreadyLeft, {})
       ELSE Goto(p, call[p], seen[p], "fb_insert") /\ UNCHANGED id_out
  /\ UNCHANGED <<tables, directories, uuids, clock>>

\* Table feedback without uk_feedback_user_swap.
uniqueNotEnforced(swapId, userId) == FALSE

\* CONSTRAINT uk_feedback_user_swap UNIQUE (user_id, swap_id)
uniqueViolated(swapId, userId) ==
  \E f \in feedback : f.swap_id = swapId /\ f.user_id = userId

\* Table feedback with none of its constraints.
insertFeedbackUnconstrained(swapId, userId, rating) == ""

\* The constraints of table feedback on an INSERT; "" when the row is accepted.
insertFeedbackError(swapId, userId, rating) ==
  IF ~(rating >= MinRating /\ rating <= MaxRating) THEN ErrCheckConstraint
  ELSE IF \A sr \in swap_requests : sr.id # swapId THEN ErrParentKeyNotFound
  ELSE IF uniqueViolated(swapId, userId) THEN ErrUniqueConstraint
  ELSE ""

\* await execute(INSERT INTO feedback ...); a constraint violation is thrown
\* and the controller answers 400 with its message.
FbInsert(p) ==
  /\ pc[p] = "fb_insert"
  /\ LET err == insertFeedbackError(call[p].id, call[p].userId, call[p].rating)
         row == [id |-> uuid_feedback + 1, swap_id |-> call[p].id,
                 user_id |-> call[p].userId, rating |-> call[p].rating]
     IN IF err # ""
          THEN /\ Respond(p, call[p], seen[p], 400, err, {})
               /\ UNCHANGED <<feedback, uuid_feedback>>
          ELSE /\ feedback' = feedback \cup {row}
               /\ uuid_feedback' = uuid_feedback + 1
               /\ id_out' = [id_out EXCEPT ![p] = row.id]
               /\ Goto(p, call[p], seen[p], "fb_return")
  /\ UNCHANGED <<swap_requests, directories, uuid_swaps, clock>>

\* SELECT ... FROM feedback f JOIN users u ... WHERE f.id = :id, then 201.
FbReturn(p) ==
  /\ pc[p] = "fb_return"
  /\ LET rows == {f \in feedback : f.id = id_out[p]} IN
       IF rows = {}
         THEN Respond(p, call[p], seen[p], 400, ErrRetrievingFeedback, {})
         ELSE Respond(p, call[p], seen[p], 201, "", rows)
  /\ UNCHANGED <<tables, directories, uuids, clock>>

(* --------------------------- createSwapRequest ------------------------ *)

\* createSwapRequest calls that have not been answered yet.
creating == {q \in Procs : call[q].op = "create"}

\* selfSwap with the check left out.
selfSwapUnchecked(senderId, receiverId) == FALSE

\* if (receiverId === req.user.id)
selfSwap(senderId, receiverId) == receiverId = senderId

\* hasOfferedSkill with the check left out.
hasOfferedSkillUnchecked(offeredSkills, offeredSkillId) == TRUE

\* offeredSkills.some(skill => skill.id === offeredSkillId)
hasOfferedSkill(offeredSkills, offeredSkillId) == offeredSkillId \in offeredSkills

\* hasWantedSkill with the check left out.
hasWantedSkillUnchecked(receiverOfferedSkills, wantedSkillId) == TRUE

\* receiverOfferedSkills.some(skill => skill.id === wantedSkillId)
hasWantedSkill(receiverOfferedSkills, wantedSkillId) ==
  wantedSkillId \in receiverOfferedSkills

\* POST /api/swaps: protect reads the user of the token; the controller then
\* refuses a swap with oneself before its first query.
CrProtect(p) ==
  /\ pc[p] = "idle"
  /\ uuid_swaps + Cardinality(creating) < MaxSwaps
  /\ \E c \in CreateRequests :
       IF protect(c.userId) # "" THEN Respond(p, c, {}, 403, protect(c.userId), {})
       ELSE IF selfSwap(c.userId, c.receiverId) THEN Respond(p, c, {}, 400, ErrSelfSwap, {})
       ELSE Goto(p, c, {}, "cr_receiver") /\ UNCHANGED id_out
  /\ UNCHANGED <<tables, directories, uuids, clock>>

\* const receiver = await userModel.getUserById(receiverId)
CrReceiver(p) ==
  /\ pc[p] = "cr_receiver"
  /\ IF getUserById(call[p].receiverId) = {}
       THEN Respond(p, call[p], {}, 404, ErrReceiverNotFound, {})
       ELSE Goto(p, call[p], {}, "cr_offered") /\ UNCHANGED id_out
  /\ UNCHANGED <<tables, directories, uuids, clock>>

\* const offeredSkills = await skillModel.getUserOfferedSkills(req.user.id)
CrOffered(p) ==
  /\ pc[p] = "cr_offered"
  /\ IF ~hasOfferedSkill(getUserOfferedSkills(call[p].userId), call[p].offeredSkillId)
       THEN Respond(p, call[p], {}, 400, ErrOfferedNotYours, {})
       ELSE Goto(p, call[p], {}, "cr_wanted") /\ UNCHANGED id_out
  /\ UNCHANGED <<tables, directories, uuids, clock>>

\* const receiverOfferedSkills = await skillModel.getUserOfferedSkills(receiverId)
CrWanted(p) ==
  /\ pc[p] = "cr_wanted"
  /\ IF ~hasWantedSkill(getUserOfferedSkills(call[p].receiverId), call[p].wantedSkillId)
       THEN Respond(p, call[p], {}, 400, ErrWantedNotReceivers, {})
       ELSE Goto(p, call[p], {}, "cr_insert") /\ UNCHANGED id_out
  /\ UNCHANGED <<tables, directories, uuids, clock>>

\* swapModel.createSwapRequest: INSERT INTO swap_requests ... 'pending'.  Users
\* and skills are never deleted, so the foreign keys of the row hold; the row
\* is read back by its id and sent with 201.
CrInsert(p) ==
  /\ pc[p] = "cr_insert"
  /\ LET row == [id |-> uuid_swaps + 1, sender_id |-> call[p].userId,
                 receiver_id |-> call[p].receiverId,
                 offered_skill_id |-> call[p].offeredSkillId,
                 wanted_skill_id |-> call[p].wantedSkillId, status |-> "pending"]
     IN /\ swap_requests' = swap_requests \cup {row}
        /\ uuid_swaps' = uuid_swaps + 1
        /\ Respond(p, call[p], {}, 201, "", {row})
  /\ UNCHANGED <<feedback, directories, uuid_feedback, clock>>

(* ------------------------ users and skills directory ------------------ *)

\* PUT /api/admin/users/:id/ban: getUserById finds only users that are not
\* banned; UPDATE users SET is_banned = 1.  (unbanUser looks its user up with
\* the same query, so it finds no banned user and never reaches its UPDATE.)
banUser(id) ==
  /\ getUserById(id) # {}
  /\ Cardinality({u \in Users : users[u].is_banned}) < MaxBanned
  /\ users' = [users EXCEPT ![id].is_banned = TRUE]
  /\ response' = NoResponse
  /\ UNCHANGED <<tables, user_skills_offered, user_skills_wanted, skills, uuids,
               locals, clock>>

\* createSkill: an unseen name is inserted with the default status 'pending'.
createSkill(name) ==
  IF getSkillByName(name) # {} THEN skills ELSE skills @@ (trim(name) :> "pending")

\* POST /api/skills/offered: protect, createSkill, then the pair is inserted
\* unless the user already has it.
addOfferedSkill(userId, skillName) ==
  /\ protect(userId) = ""
  /\ skills' = createSkill(skillName)
  /\ user_skills_offered' = user_skills_offered \cup {<<userId, skillName>>}
  /\ response' = NoResponse
  /\ UNCHANGED <<tables, users, user_skills_wanted, uuids, locals, clock>>

\* DELETE /api/skills/offered/:id: protect, DELETE FROM user_skills_offered.
removeOfferedSkill(userId, skillId) ==
  /\ protect(userId) = ""
  /\ user_skills_offered' = user_skills_offered \ {<<userId, skillId>>}
  /\ response' = NoResponse
  /\ UNCHANGED <<tables, users, user_skills_wanted, skills, uuids, locals, clock>>

\* PUT /api/admin/skills/:id/moderate: getSkillById, then UPDATE skills SET status.
moderateSkill(id, status) ==
  /\ id \in DOMAIN skills
  /\ status \in {"approved", "rejected"}
  /\ skills' = [skills EXCEPT ![id] = status]
  /\ response' = NoResponse
  /\ UNCHANGED <<tables, users, user_skills_offered, user_skills_wanted, uuids,
               locals, clock>>

(* --------------------- addOfferedSkill, statement by statement -------- *)

\* The request is over: the model function returned or threw.
Finish(p) ==
  /\ pc' = [pc EXCEPT ![p] = "idle"]
  /\ call' = [call EXCEPT ![p] = NoCall]
  /\ seen' = [seen EXCEPT ![p] = {}]
  /\ response' = NoResponse
  /\ UNCHANGED id_out

\* POST /api/skills/offered: protect, then createSkill's
\* const existingSkill = await this.getSkillByName(name); an existing skill
\* is returned as it is (result.rows[0]).
AosLookup(p) ==
  /\ pc[p] = "idle"
  /\ \E c \in AddOfferedSkillRequests :
       /\ protect(c.userId) = ""
       /\ LET existingSkill == getSkillByName(c.skillName) IN
            IF existingSkill = {}
              THEN Goto(p, c, {}, "aos_create")
              ELSE \E skill \in existingSkill : Goto(p, c, {skill}, "aos_check")
  /\ UNCHANGED <<tables, directories, uuids, id_out, clock>>

\* skills.name ... UNIQUE: the constraint compares the stored strings.
uniqueNameViolated(name) == name \in DOMAIN skills

\* createSkill: INSERT INTO skills (id, name) VALUES (:id, name.trim()); the
\* status is the column default 'pending'.  A violated constraint is thrown.
AosCreate(p) ==
  /\ pc[p] = "aos_create"
  /\ LET name == trim(call[p].skillName) IN
       IF uniqueNameViolated(name)
         THEN Finish(p) /\ UNCHANGED skills
         ELSE /\ skills' = skills @@ (name :> "pending")
              /\ Goto(p, call[p], {name}, "aos_check")
              /\ UNCHANGED id_out
  /\ UNCHANGED <<tables, users, user_skills_offered, user_skills_wanted, uuids, clock>>

\* SELECT id FROM user_skills_offered WHERE user_id = :userId AND skill_id = :skillId
AosCheck(p) ==
  /\ pc[p] = "aos_check"
  /\ IF \E skill \in seen[p] : <<call[p].userId, skill>> \in user_skills_offered
       THEN Finish(p)
       ELSE Goto(p, call[p], seen[p], "aos_insert") /\ UNCHANGED id_out
  /\ UNCHANGED <<tables, directories, uuids, clock>>

\* INSERT INTO user_skills_offered (id, user_id, skill_id); a pair stored
\* meanwhile violates uk_user_skills_offered and nothing is inserted.
AosInsert(p) ==
  /\ pc[p] = "aos_insert"
  /\ user_skills_offered' =
       user_skills_offered \cup {<<call[p].userId, skill>> : skill \in seen[p]}
  /\ Finish(p)
  /\ UNCHANGED <<tables, users, user_skills_wanted, skills, uuids, clock>>

(* --------------------------- password reset --------------------------- *)

ForgotPasswordRequests ==
  [op : {"forgotPassword"}, id : {0}, userId : {""}, rating : {0},
   receiverId : {""}, offeredSkillId : {""}, wantedSkillId : {""},
   skillName : {""}, email : EmailInputs, resettoken : {0}, password : {""}]

ResetPasswordRequests ==
  [op : {"resetPassword"}, id : {0}, userId : {""}, rating : {0},
   receiverId : {""}, offeredSkillId : {""}, wantedSkillId : {""},
   skillName : {""}, email : {""}, resettoken : TokenInputs,
   password : PasswordInputs]

\* SELECT ... FROM users WHERE LOWER(email) = LOWER(:email)
findByEmail(email) == {u \in Users : LOWER(u) = LOWER(email)}

\* The tasks between the lookup and the UPDATE of setResetPasswordToken.
generating == {p \in Procs : pc[p] = "fp_update"}

\* forgotPassword, setResetPasswordToken: const user = await
\* this.findByEmail(email); no user is answered 404.
FpFind(p) ==
  /\ pc[p] = "idle"
  /\ random_bytes + Cardinality(generating) < MaxTokens
  /\ \E c \in ForgotPasswordRequests :
       LET user == findByEmail(c.email)
       IN IF user = {} THEN Respond(p, c, {}, 404, ErrEmailNotFound, {})
          ELSE Goto(p, c, user, "fp_update") /\ UNCHANGED id_out
  /\ UNCHANGED <<tables, directories, uuids, clock>>

\* UPDATE users SET reset_password_token = :resetPasswordToken,
\*   reset_password_expire = :resetPasswordExpire WHERE id = :id
setToken(id, resetPasswordToken, resetPasswordExpire) ==
  [users EXCEPT ![id].reset_password_token = resetPasswordToken,
                ![id].reset_password_expire = resetPasswordExpire]

\* setResetPasswordToken: a token that was never drawn before
\* (crypto.randomBytes(20)) is hashed and stored with its expiry; the
\* controller answers with the token itself in resetUrl.
FpUpdate(p) ==
  /\ pc[p] = "fp_update"
  /\ LET id == CHOOSE u \in seen[p] : TRUE
         resetToken == random_bytes + 1
     IN /\ users' = setToken(id, sha256(resetToken), now + ResetExpireMinutes)
        /\ random_bytes' = random_bytes + 1
        /\ Respond(p, call[p], seen[p], 200, "", {resetToken})
  /\ UNCHANGED <<tables, user_skills_offered, user_skills_wanted, skills, uuids, now>>

\* SELECT id FROM users WHERE reset_password_token = :resetPasswordToken
\*   AND reset_password_expire > CURRENT_TIMESTAMP
usersWithToken(resetPasswordToken) ==
  {u \in Users : /\ users[u].reset_password_token = resetPasswordToken
                 /\ users[u].reset_password_expire > now}

\* resetPassword: the token is hashed and looked up; no row is answered 400.
RpSelect(p) ==
  /\ pc[p] = "idle"
  /\ \E c \in ResetPasswordRequests :
       LET rows == usersWithToken(sha256(c.resettoken))
       IN IF rows = {} THEN Respond(p, c, {}, 400, ErrInvalidToken, {})
          ELSE Goto(p, c, rows, "rp_update") /\ UNCHANGED id_out
  /\ UNCHANGED <<tables, directories, uuids, clock>>

\* setPassword leaving the token in the row.
setPasswordKeepingToken(id, password) ==
  [users EXCEPT ![id].password = bcrypt(password)]

\* UPDATE users SET password = :password, reset_password_token = NULL,
\*   reset_password_expire = NULL WHERE id = :id
setPassword(id, password) ==
  [users EXCEPT ![id].password = bcrypt(password),
                ![id].reset_password_token = NULL,
                ![id].reset_password_expire = NULL]

\* resetPassword: const userId = result.rows[0].ID, then the UPDATE.
RpUpdate(p) ==
  /\ pc[p] = "rp_update"
  /\ LET userId == CHOOSE u \in seen[p] : TRUE
     IN users' = setPassword(userId, call[p].password)
  /\ Respond(p, call[p], seen[p], 200, "", {})
  /\ UNCHANGED <<tables, user_skills_offered, user_skills_wanted, skills, uuids, clock>>

\* Time passes.
Tick ==
  /\ now < MaxTicks * TickMinutes
  /\ now' = now + TickMinutes
  /\ response' = NoResponse
  /\ UNCHANGED <<tables, directories, uuids, random_bytes, locals>>

(* ---------------------------- specification --------------------------- *)

Next ==
  \E p \in Procs :
    \/ CrProtect(p)
    \/ CrReceiver(p)
    \/ CrOffered(p)
    \/ CrWanted(p)
    \/ CrInsert(p)
    \/ UpdRead(p)
    \/ UpdWrite(p)
    \/ UpdReturn(p)
    \/ DelRead(p)
    \/ DelWrite(p)
    \/ FbRead(p)
    \/ FbCheck(p)
    \/ FbInsert(p)
    \/ FbReturn(p)

Spec == Init /\ [][Next]_vars

NextCreate ==
  \/ \E p \in Procs :
       \/ CrProtect(p)
       \/ CrReceiver(p)
       \/ CrOffered(p)
       \/ CrWanted(p)
       \/ CrInsert(p)
  \/ \E u \in Users : banUser(u)
  \/ \E u \in Users : \E s \in Skills : addOfferedSkill(u, s)
  \/ \E u \in Users : \E s \in Skills : removeOfferedSkill(u, s)
  \/ \E s \in Skills : \E st \in {"approved", "rejected"} : moderateSkill(s, st)

SpecCreate == InitCreate /\ [][NextCreate]_vars

\* The requests swap.routes.js serves (GET / and GET /:id write nothing).  The
\* statements of addFeedback after its checks run only from a task that passed
\* them; C26 shows no task ever has.
NextRoutes ==
  \E p \in Procs :
    \/ CrProtect(p)
    \/ CrReceiver(p)
    \/ CrOffered(p)
    \/ CrWanted(p)
    \/ CrInsert(p)
    \/ RoutedUpdRead(p)
    \/ UpdWrite(p)
    \/ UpdReturn(p)
    \/ DelRead(p)
    \/ DelWrite(p)
    \/ FbRead(p)

SpecRoutes == Init /\ [][NextRoutes]_vars

\* One swap request after the other, with an administrator banning users
\* between the statements.
NextBan ==
  \/ \E p \in {"t1"} :
       \/ CrProtect(p)
       \/ CrReceiver(p)
       \/ CrOffered(p)
       \/ CrWanted(p)
       \/ CrInsert(p)
       \/ UpdRead(p)
       \/ UpdWrite(p)
       \/ UpdReturn(p)
       \/ DelRead(p)
       \/ DelWrite(p)
       \/ FbRead(p)
       \/ FbCheck(p)
       \/ FbInsert(p)
       \/ FbReturn(p)
  \/ \E u \in Users : banUser(u)

SpecBan == Init /\ [][NextBan]_vars

\* Forgotten and reset passwords, as the clock advances.
NextReset ==
  \/ \E p \in Procs :
       \/ FpFind(p)
       \/ FpUpdate(p)
       \/ RpSelect(p)
       \/ RpUpdate(p)
  \/ Tick

SpecReset == Init /\ [][NextReset]_vars

\* Transitions only, on a ledger that holds another swap and feedback.
NextFrame ==
  \E p \in Procs :
    \/ UpdRead(p)
    \/ UpdWrite(p)
    \/ UpdReturn(p)

SpecFrame == InitFrame /\ [][NextFrame]_vars

NextSkills ==
  \E p \in Procs :
    \/ AosLookup(p)
    \/ AosCreate(p)
    \/ AosCheck(p)
    \/ AosInsert(p)

SpecSkills == InitCreate /\ [][NextSkills]_vars

(* ------------------------------- claims ------------------------------- *)

Terminal == {"rejected", "completed"}

\* The failures the specification calls Forbidden and InvalidState.
Forbidden == {ErrNotAuthorized, ErrOnlyReceiver}

ReadPending(rows) == rows # {} /\ \A sr \in rows : sr.status = "pending"

\* C1: terminal states are never left: a swap that is rejected or completed
\* keeps its status and stays stored, whatever call runs next.
C1_TerminalNeverLeft ==
  [][\A sr \in swap_requests : sr.status \in Terminal => sr \in swap_requests']_vars

\* C2: a swap never goes from pending directly to completed: completeSwapRequest
\* succeeds only on an accepted swap and leaves a pending swap pending.
C2_CompleteOnlyFromAccepted ==
  [][\A sr \in swap_requests : \A sr2 \in swap_requests' :
       (sr.id = sr2.id /\ sr.status = "pending") => sr2.status # "completed"]_vars

\* C3: acceptSwapRequest and rejectSwapRequest by the receiver on a swap it read
\* as accepted, rejected or completed fail and leave the stored row as it was.
C3_AcceptRejectOnlyFromPending ==
  (/\ response.call.op \in {"accept", "reject"}
   /\ \E sr \in response.seen :
        sr.receiver_id = response.call.userId /\ sr.status # "pending")
  => /\ response.code = 400
     /\ getSwapRequestById(response.call.id) = response.seen

\* C4: of two acceptSwapRequest calls that both read the swap as pending, at most
\* one is answered 200: an accept that succeeds is never directly preceded by
\* another successful accept of the same pending swap.
C4_OneAcceptWins ==
  [][\A p \in Procs :
       (/\ pc[p] = "upd_return" /\ pc'[p] = "idle"
        /\ call[p].op = "accept" /\ ReadPending(seen[p])
        /\ response'.code = 200)
       => ~(/\ response.call.op = "accept"
            /\ response.call.id = call[p].id
            /\ ReadPending(response.seen)
            /\ response.code = 200)]_vars

\* C5: when an accept or reject races a delete of the same pending swap, at most
\* one succeeds: a delete that succeeds removes only a swap that is still
\* pending, and a successful accept or reject finds its swap still stored.
C5_DeleteOrTransition ==
  /\ (response.call.op = "delete" /\ response.code = 200)
       => \A sr \in response.returned : sr.status = "pending"
  /\ (/\ response.call.op \in {"accept", "reject"}
      /\ response.code = 200 /\ ReadPending(response.seen))
       => response.returned # {}

\* C6: accept or reject by anyone but the receiver of an existing swap (its
\* sender, or a non-participant) is refused as forbidden, never reaches the
\* UPDATE, and leaves the stored row as it was.
C6_OnlyReceiverAcceptsOrRejects ==
  /\ (/\ response.call.op \in {"accept", "reject"}
      /\ \E sr \in response.seen : sr.receiver_id # response.call.userId)
       => /\ response.code = 400
          /\ response.error \in Forbidden
          /\ getSwapRequestById(response.call.id) = response.seen
  /\ \A p \in Procs :
       (pc[p] \in {"upd_write", "upd_return"} /\ call[p].op \in {"accept", "reject"})
         => \A sr \in seen[p] : sr.receiver_id = call[p].userId

C6_Witness ==
  /\ response.call.op = "accept"
  /\ response.error = ErrOnlyReceiver
  /\ \E sr \in response.seen :
       sr.sender_id = response.call.userId /\ sr.status = "pending"
  /\ \E sr \in swap_requests : sr.id = response.call.id /\ sr.status = "pending"

\* C7: a delete of an existing swap by anyone but its sender, or by its sender
\* when the swap is no longer pending, fails (the latter with "only pending
\* swap requests can be deleted"), never reaches the DELETE, and the swap is
\* still stored with the status it had.
C7_DeleteOnlyPendingBySender ==
  /\ (/\ response.call.op = "delete"
      /\ \E sr \in response.seen :
           sr.sender_id # response.call.userId \/ sr.status # "pending")
       => /\ response.code = 400
          /\ response.error \in {ErrOnlySender, ErrOnlyPending}
          /\ getSwapRequestById(response.call.id) = response.seen
  /\ (/\ response.call.op = "delete"
      /\ \E sr \in response.seen :
           sr.sender_id = response.call.userId /\ sr.status # "pending")
       => response.error = ErrOnlyPending
  /\ \A p \in Procs :
       pc[p] = "del_write"
         => \A sr \in seen[p] : sr.sender_id = call[p].userId /\ sr.status = "pending"

C7_Witness ==
  /\ response.call.op = "delete"
  /\ response.error = ErrOnlyPending
  /\ \E sr \in swap_requests :
       /\ sr.id = response.call.id
       /\ sr.sender_id = response.call.userId
       /\ sr.status = "accepted"

\* C8: the feedback table never holds two rows for the same (swap, author) pair.
C8_OneFeedbackPerAuthor ==
  \A f \in feedback : \A g \in feedback :
    (f.swap_id = g.swap_id /\ f.user_id = g.user_id) => f = g

\* Two calls by one author passed the existence check together; the second
\* INSERT was refused by uk_feedback_user_swap.
C8_Witness ==
  /\ response.call.op = "addFeedback"
  /\ response.error = ErrUniqueConstraint
  /\ Cardinality(feedbackOf(response.call.id, response.call.userId)) = 1

\* C9: an addFeedback call whose existence check runs when its author already
\* has a row for the swap fails with "already left feedback" and inserts
\* nothing, whatever its rating; an INSERT for a stored swap with no such row
\* yet adds exactly one row, carrying the call's swap, author and rating.
C9_SecondFeedbackIsDuplicate ==
  [][\A p \in Procs :
       /\ (/\ pc[p] = "fb_check" /\ pc'[p] # "fb_check"
           /\ feedbackOf(call[p].id, call[p].userId) # {})
            => /\ response'.code = 400
               /\ response'.error = ErrAlreadyLeft
               /\ response'.call = call[p]
               /\ feedback' = feedback
       /\ (/\ pc[p] = "fb_insert" /\ pc'[p] # "fb_insert"
           /\ feedbackOf(call[p].id, call[p].userId) = {}
           /\ getSwapRequestById(call[p].id) # {})
            => \E f \in feedback' :
                 /\ f \notin feedback
                 /\ feedback' = feedback \cup {f}
                 /\ f.swap_id = call[p].id
                 /\ f.user_id = call[p].userId
                 /\ f.rating = call[p].rating]_vars

C9_Witness ==
  /\ response.call.op = "addFeedback"
  /\ response.error = ErrAlreadyLeft
  /\ \E f \in feedback :
       /\ f.swap_id = response.call.id
       /\ f.user_id = response.call.userId
       /\ f.rating # response.call.rating

\* C10: addFeedback by a participant on a swap it read as pending, accepted or
\* rejected fails with "feedback can only be added to completed swaps", and
\* only a call that read its swap as completed goes on to the feedback table.
C10_FeedbackOnlyWhenCompleted ==
  /\ (/\ response.call.op = "addFeedback"
      /\ \E sr \in response.seen :
           /\ response.call.userId \in {sr.sender_id, sr.receiver_id}
           /\ sr.status # "completed")
       => /\ response.code = 400
          /\ response.error = ErrNotCompleted
  /\ \A p \in Procs :
       pc[p] \in {"fb_check", "fb_insert", "fb_return"}
         => /\ seen[p] # {}
            /\ \A sr \in seen[p] :
                 /\ sr.status = "completed"
                 /\ call[p].userId \in {sr.sender_id, sr.receiver_id}

C10_Witness ==
  /\ response.call.op = "addFeedback"
  /\ response.error = ErrNotCompleted
  /\ \E sr \in swap_requests :
       /\ sr.id = response.call.id
       /\ sr.status = "accepted"
       /\ response.call.userId = sr.receiver_id
  /\ feedback = {}

\* C11: every stored feedback row references a stored swap whose status is
\* completed; no interleaving of transitions, deletions and addFeedback calls
\* leaves a feedback row on a swap that is pending, accepted or rejected.
C11_FeedbackOnCompletedSwap ==
  \A f \in feedback :
    \E sr \in swap_requests : sr.id = f.swap_id /\ sr.status = "completed"

\* C12: every stored swap has a sender different from its receiver:
\* createSwapRequest with the caller as receiver is refused with "cannot create
\* a swap request with yourself" whatever its skill arguments (only a banned
\* caller is turned away earlier, by protect), never reaches a query, and
\* creates no row.
C12_NoSelfSwap ==
  /\ \A sr \in swap_requests : sr.sender_id # sr.receiver_id
  /\ (response.call.op = "create" /\ response.call.receiverId = response.call.userId)
       => /\ response.returned = {}
          /\ \/ response.code = 400 /\ response.error = ErrSelfSwap
             \/ response.code = 403 /\ response.error = ErrBanned
  /\ \A p \in Procs :
       pc[p] \in {"cr_receiver", "cr_offered", "cr_wanted", "cr_insert"}
         => call[p].receiverId # call[p].userId

\* A swap with oneself is refused although the offered skill is the caller's own.
C12_Witness ==
  /\ response.call.op = "create"
  /\ response.call.receiverId = response.call.userId
  /\ response.error = ErrSelfSwap
  /\ <<response.call.userId, response.call.offeredSkillId>> \in user_skills_offered
  /\ <<response.call.userId, response.call.wantedSkillId>> \notin user_skills_offered
  /\ swap_requests = {}

\* C13: a createSwapRequest call whose offered-skill check finds offeredSkillId
\* outside the sender's offered set is refused with "offered skill does not
\* belong to you" and the swap table is left as it was; a call goes on to the
\* receiver's skills only when the skill was found.
C13_OfferedSkillMustBeSenders ==
  [][\A p \in Procs :
       (pc[p] = "cr_offered" /\ pc'[p] # "cr_offered")
         => IF <<call[p].userId, call[p].offeredSkillId>> \in user_skills_offered
              THEN pc'[p] = "cr_wanted"
              ELSE /\ pc'[p] = "idle"
                   /\ response'.call = call[p]
                   /\ response'.code = 400
                   /\ response'.error = ErrOfferedNotYours
                   /\ response'.returned = {}
                   /\ swap_requests' = swap_requests]_vars

\* The refused skill is one the receiver offers, not the sender.
C13_Witness ==
  /\ response.call.op = "create"
  /\ response.error = ErrOfferedNotYours
  /\ <<response.call.userId, response.call.offeredSkillId>> \notin user_skills_offered
  /\ <<response.call.receiverId, response.call.offeredSkillId>> \in user_skills_offered
  /\ <<response.call.receiverId, response.call.wantedSkillId>> \in user_skills_offered
  /\ swap_requests = {}

\* C14: a createSwapRequest call whose wanted-skill check finds wantedSkillId
\* outside the receiver's offered set is refused with "wanted skill does not
\* belong to receiver" and the swap table is left as it was, also when the
\* skill is in the receiver's wanted set or in the sender's offered set; a
\* call goes on to the INSERT only when the skill was found.
C14_WantedSkillMustBeReceivers ==
  [][\A p \in Procs :
       (pc[p] = "cr_wanted" /\ pc'[p] # "cr_wanted")
         => IF <<call[p].receiverId, call[p].wantedSkillId>> \in user_skills_offered
              THEN pc'[p] = "cr_insert"
              ELSE /\ pc'[p] = "idle"
                   /\ response'.call = call[p]
                   /\ response'.code = 400
                   /\ response'.error = ErrWantedNotReceivers
                   /\ response'.returned = {}
                   /\ swap_requests' = swap_requests]_vars

\* The refused skill is in the receiver's wanted set and in the sender's
\* offered set, but not in the receiver's offered set.
C14_Witness ==
  /\ response.call.op = "create"
  /\ response.error = ErrWantedNotReceivers
  /\ <<response.call.receiverId, response.call.wantedSkillId>> \in user_skills_wanted
  /\ <<response.call.userId, response.call.wantedSkillId>> \in user_skills_offered
  /\ <<response.call.receiverId, response.call.wantedSkillId>> \notin user_skills_offered
  /\ swap_requests = {}

\* C15: a swap row is created only with approved skills: when the row is
\* inserted, its offered skill and its wanted skill both have directory status
\* approved (not pending, not rejected).
C15_OnlyApprovedSkills ==
  [][\A sr \in swap_requests' \ swap_requests :
       /\ skills[sr.offered_skill_id] = "approved"
       /\ skills[sr.wanted_skill_id] = "approved"]_vars

Statuses == {"pending", "accepted", "rejected", "completed"}

\* C17: the status of every stored swap is one of pending, accepted, rejected,
\* completed, and a swap that was not stored before the step is stored with
\* status pending.
C17_StatusEnum ==
  [][\A sr \in swap_requests' :
       /\ sr.status \in Statuses
       /\ (\A old \in swap_requests : old.id # sr.id) => sr.status = "pending"]_vars

\* A swap created as pending has been through accept and complete.
C17_Witness ==
  /\ response.call.op = "complete"
  /\ response.code = 200
  /\ \E sr \in response.seen : sr.status = "accepted"
  /\ \E sr \in swap_requests : sr.id = response.call.id /\ sr.status = "completed"

\* C18: completeSwapRequest on a swap it read as accepted is answered 200 when
\* called by the sender and when called by the receiver, and its UPDATE stores
\* completed, with no call of the other party needed; called by a user who is
\* neither, it is refused, never reaches the UPDATE, and the stored row is as
\* it was.
C18_EitherPartyCompletes ==
  [][/\ (/\ response'.call.op = "complete"
         /\ \E sr \in response'.seen :
              /\ sr.status = "accepted"
              /\ response'.call.userId \in {sr.sender_id, sr.receiver_id})
          => response'.code = 200 /\ response'.error = ""
     /\ \A p \in Procs :
          (pc[p] = "upd_write" /\ pc'[p] # "upd_write" /\ call[p].op = "complete")
            => \A sr \in swap_requests :
                 sr.id = call[p].id
                   => [sr EXCEPT !.status = "completed"] \in swap_requests'
     /\ (/\ response'.call.op = "complete"
         /\ \E sr \in response'.seen :
              response'.call.userId \notin {sr.sender_id, sr.receiver_id})
          => /\ response'.code = 400
             /\ response'.error = ErrNotAuthorized
             /\ {sr \in swap_requests' : sr.id = response'.call.id} = response'.seen
     /\ \A p \in Procs :
          (pc'[p] \in {"upd_write", "upd_return"} /\ call'[p].op = "complete")
            => \A sr \in seen'[p] : call'[p].userId \in {sr.sender_id, sr.receiver_id}]_vars

\* The sender alone completed an accepted swap.
C18_Witness ==
  /\ response.call.op = "complete"
  /\ response.code = 200
  /\ \E sr \in response.seen :
       sr.status = "accepted" /\ sr.sender_id = response.call.userId
  /\ \E sr \in response.returned : sr.status = "completed"

\* C19: addFeedback by a user who is neither the sender nor the receiver of the
\* swap it read is refused with "only participants can add feedback" whatever
\* the status of the swap, never reaches the feedback table, and adds no row;
\* so the author of every stored feedback row is the sender or the receiver of
\* the row's swap.
C19_OnlyParticipantsGiveFeedback ==
  /\ (/\ response.call.op = "addFeedback"
      /\ \E sr \in response.seen :
           response.call.userId \notin {sr.sender_id, sr.receiver_id})
       => /\ response.code = 400
          /\ response.error = ErrOnlyParticipantsFeedback
          /\ response.returned = {}
  /\ \A p \in Procs :
       pc[p] \in {"fb_check", "fb_insert", "fb_return"}
         => \A sr \in seen[p] : call[p].userId \in {sr.sender_id, sr.receiver_id}
  /\ \A f \in feedback : \A sr \in swap_requests :
       sr.id = f.swap_id => f.user_id \in {sr.sender_id, sr.receiver_id}
  /\ \A f \in feedback : \E sr \in swap_requests : sr.id = f.swap_id

\* An outsider was refused on a completed swap that already has feedback of a
\* participant.
C19_Witness ==
  /\ response.call.op = "addFeedback"
  /\ response.error = ErrOnlyParticipantsFeedback
  /\ \E sr \in response.seen :
       /\ sr.status = "completed"
       /\ response.call.userId \notin {sr.sender_id, sr.receiver_id}
  /\ feedback # {}
  /\ feedbackOf(response.call.id, response.call.userId) = {}

\* C20: every stored feedback row has a rating between 1 and 5: addFeedback
\* with a rating below 1 or above 5 is refused by the route's validation,
\* reads no swap, and adds no row.
C20_RatingInRange ==
  /\ \A f \in feedback : f.rating >= 1 /\ f.rating <= 5
  /\ (response.call.op = "addFeedback"
      /\ (response.call.rating < 1 \/ response.call.rating > 5))
       => /\ response.code = 400
          /\ response.error = ErrValidation
          /\ response.seen = {}
          /\ response.returned = {}
  /\ \A p \in Procs :
       call[p].op = "addFeedback" => call[p].rating >= 1 /\ call[p].rating <= 5

\* A participant of a completed swap sent a rating above 5 and no row was stored.
C20_Witness ==
  /\ response.call.op = "addFeedback"
  /\ response.call.rating > 5
  /\ response.error = ErrValidation
  /\ \E sr \in swap_requests :
       /\ sr.id = response.call.id
       /\ sr.status = "completed"
       /\ sr.sender_id = response.call.userId
  /\ feedback = {}

\* C21: the full lifecycle goes through.  A createSwapRequest that passed its
\* checks stores a pending swap and is answered 201 with it; an accept by the
\* receiver of a swap read as pending is answered 200 and its UPDATE turns
\* pending into accepted; a complete by the sender of a swap read as accepted
\* is answered 200 and its UPDATE turns accepted into completed; and an
\* addFeedback by a participant of a swap read as completed is refused only
\* for a row the author already has or a swap deleted meanwhile, its INSERT
\* otherwise adding the row that is then answered with 201.
C21_FullLifecycle ==
  [][/\ \A p \in Procs :
          (pc[p] = "cr_insert" /\ pc'[p] # "cr_insert")
            => /\ response'.code = 201
               /\ \E sr \in swap_requests' \ swap_requests :
                    /\ sr.status = "pending"
                    /\ sr.sender_id = call[p].userId
                    /\ sr.receiver_id = call[p].receiverId
                    /\ response'.returned = {sr}
     /\ (/\ response'.call.op = "accept"
         /\ \E sr \in response'.seen :
              sr.status = "pending" /\ sr.receiver_id = response'.call.userId)
          => response'.code = 200
     /\ (/\ response'.call.op = "complete"
         /\ \E sr \in response'.seen :
              sr.status = "accepted" /\ sr.sender_id = response'.call.userId)
          => response'.code = 200
     /\ \A p \in Procs :
          (pc[p] = "upd_write" /\ pc'[p] # "upd_write")
            => \A sr \in swap_requests :
                 sr.id = call[p].id
                   => /\ (call[p].op = "accept" /\ sr.status = "pending")
                           => [sr EXCEPT !.status = "accepted"] \in swap_requests'
                      /\ (call[p].op = "complete" /\ sr.status = "accepted")
                           => [sr EXCEPT !.status = "completed"] \in swap_requests'
     /\ (/\ response'.call.op = "addFeedback"
         /\ \E sr \in response'.seen :
              /\ sr.status = "completed"
              /\ response'.call.userId \in {sr.sender_id, sr.receiver_id})
          => \/ response'.code = 201 /\ response'.returned # {}
             \/ /\ response'.code = 400
                /\ response'.error \in {ErrAlreadyLeft, ErrUniqueConstraint,
                                        ErrParentKeyNotFound, ErrRetrievingFeedback}
     /\ \A p \in Procs :
          (/\ pc[p] = "fb_insert" /\ pc'[p] # "fb_insert"
           /\ getSwapRequestById(call[p].id) # {}
           /\ feedbackOf(call[p].id, call[p].userId) = {})
            => /\ pc'[p] = "fb_return"
               /\ \E f \in feedback' \ feedback :
                    f.swap_id = call[p].id /\ f.user_id = call[p].userId]_vars

\* The swap is completed, its receiver has left feedback, and its sender's
\* feedback has just been answered 201.
C21_Witness ==
  /\ response.call.op = "addFeedback"
  /\ response.code = 201
  /\ \E sr \in swap_requests :
       /\ sr.id = response.call.id
       /\ sr.status = "completed"
       /\ sr.sender_id = response.call.userId
       /\ skills[sr.offered_skill_id] = "approved"
       /\ skills[sr.wanted_skill_id] = "approved"
       /\ feedbackOf(sr.id, sr.receiver_id) # {}
       /\ feedbackOf(sr.id, sr.sender_id) = response.returned

\* C22: when createSwapRequest inserts a swap row, the offered skill is in the
\* sender's offered set and the wanted skill is in the receiver's offered set:
\* no removeOfferedSkill that ran before the INSERT is missed.
C22_SkillsStillOfferedAtInsert ==
  [][\A sr \in swap_requests' \ swap_requests :
       /\ <<sr.sender_id, sr.offered_skill_id>> \in user_skills_offered
       /\ <<sr.receiver_id, sr.wanted_skill_id>> \in user_skills_offered]_vars

\* C23: an accept, reject or complete that is answered 200 returns the swap
\* with the status it wrote (accepted, rejected, completed), also when other
\* transitions or a delete of the same swap run concurrently with it.
C23_ReturnsWrittenStatus ==
  (response.call.op \in {"accept", "reject", "complete"} /\ response.code = 200)
    => /\ response.returned # {}
       /\ \A sr \in response.returned :
            sr.id = response.call.id /\ sr.status = statusOf(response.call.op)

\* C24: skill names are unique ignoring case: no two stored skills have names
\* that are equal up to case, whatever createSkill calls ran concurrently.
C24_SkillNamesUniqueIgnoringCase ==
  \A a \in DOMAIN skills : \A b \in DOMAIN skills :
    LOWER(a) = LOWER(b) => a = b

\* C25: a swap has at most two feedback rows, and two rows of one swap are by
\* its two participants, one by the sender and one by the receiver.
C25_AtMostTwoFeedbackRows ==
  \A sr \in swap_requests :
    LET rows == {f \in feedback : f.swap_id = sr.id} IN
      /\ Cardinality(rows) <= 2
      /\ Cardinality(rows) = 2
           => /\ \E f \in rows : f.user_id = sr.sender_id
              /\ \E f \in rows : f.user_id = sr.receiver_id
              /\ sr.sender_id # sr.receiver_id

\* Both participants have left feedback and a further call of one of them has
\* just been refused.
C25_Witness ==
  /\ response.call.op = "addFeedback"
  /\ response.code = 400
  /\ \E sr \in swap_requests :
       /\ sr.id = response.call.id
       /\ response.call.userId \in {sr.sender_id, sr.receiver_id}
       /\ Cardinality({f \in feedback : f.swap_id = sr.id}) = 2

C27_NeverPendingAgain ==
  [][/\ \A sr \in swap_requests : \A sr2 \in swap_requests' :
          (sr.id = sr2.id /\ sr.status # "pending") => sr2.status # "pending"
     /\ \A p \in Procs : \A sr \in swap_requests :
          (/\ pc[p] = "idle" /\ pc'[p] = "del_write"
           /\ sr.id = call'[p].id)
            => sr.status = "pending"
     /\ \A sr \in swap_requests :
          (/\ sr.status # "pending"
           /\ response'.call.op = "delete"
           /\ response'.call.id = sr.id
           /\ response'.call.userId = sr.sender_id
           /\ response'.seen = {sr})
            => /\ response'.code = 400
               /\ response'.error = ErrOnlyPending
               /\ swap_requests' = swap_requests
               /\ feedback' = feedback]_vars

\* A swap that went on to completed was not deleted for its sender.
C27_Witness ==
  /\ response.call.op = "delete"
  /\ response.error = ErrOnlyPending
  /\ \E sr \in swap_requests :
       /\ sr.id = response.call.id
       /\ sr.sender_id = response.call.userId
       /\ sr.status = "completed"
  /\ feedback # {}

\* C28: an accept, reject or complete changes nothing but the status of its
\* swap: no step adds or removes a swap row or changes a feedback row, every
\* row keeps its id, sender, receiver and skills, and every row other than the
\* one an UPDATE is run for - in particular every row during a call that is
\* refused - is unchanged.
C28_TransitionFrame ==
  [][/\ feedback' = feedback
     /\ \A sr \in swap_requests :
          \E sr2 \in swap_requests' : sr2 = [sr EXCEPT !.status = sr2.status]
     /\ \A sr2 \in swap_requests' : \E sr \in swap_requests : sr.id = sr2.id
     /\ \A sr \in swap_requests :
          (\A p \in Procs :
             ~(pc[p] = "upd_write" /\ pc'[p] # "upd_write" /\ call[p].id = sr.id))
            => sr \in swap_requests']_vars

\* The pending swap has been accepted and answered; the other swap and its
\* feedback row are as they were.
C28_Witness ==
  /\ response.call.op = "accept"
  /\ response.code = 200
  /\ \E sr \in swap_requests : sr.id = response.call.id /\ sr.status = "accepted"
  /\ \E sr \in swap_requests : sr.id # response.call.id /\ sr.status = "completed"
  /\ \E f \in feedback : f.swap_id # response.call.id

C30_ResetTokenSingleUse ==
  [][/\ \A u \in Users : \A v \in Users :
          (u # v /\ users[u].reset_password_token # NULL)
            => users[u].reset_password_token # users[v].reset_password_token
     /\ \A t \in 1..random_bytes : \A u \in Users :
          users'[u].reset_password_token = sha256(t)
            => users[u].reset_password_token = sha256(t)
     /\ (response'.call.op = "resetPassword" /\ response'.code = 200)
          => \A u \in Users :
               users'[u].reset_password_token # sha256(response'.call.resettoken)
     /\ \A p \in Procs :
          (pc[p] = "fp_update" /\ pc'[p] = "idle")
            => /\ random_bytes' = random_bytes + 1
               /\ \A u \in seen[p] :
                    users'[u].reset_password_token = sha256(random_bytes')
     /\ \A p \in Procs :
          (pc[p] = "idle" /\ pc'[p] = "rp_update")
            => \E u \in Users :
                 users[u].reset_password_token = sha256(call'[p].resettoken)
     /\ (/\ response'.call.op = "resetPassword"
         /\ pc' = pc
         /\ \A u \in Users :
              users[u].reset_password_token # sha256(response'.call.resettoken))
          => /\ response'.code = 400
             /\ response'.error = ErrInvalidToken
             /\ users' = users]_vars

\* The only token ever handed out has reset a password; a second reset with
\* it, with another password and before the token could have expired, was
\* refused and the password is still the one of the first reset.
C30_Witness ==
  /\ response.call.op = "resetPassword"
  /\ response.code = 400
  /\ response.error = ErrInvalidToken
  /\ random_bytes = 1
  /\ response.call.resettoken = 1
  /\ now = 0
  /\ \A p \in Procs : pc[p] = "idle"
  /\ \E u \in Users :
       /\ users[u].password \notin {bcrypt("pw0"), bcrypt(response.call.password)}
       /\ users[u].reset_password_token = NULL

====
